---- MODULE Spec2Model ----
(***************************************************************************)
(* A model of spatial_image_multiscale.py: to_multiscale builds a pyramid  *)
(* of datasets from a labelled image, MultiscaleSpatialImage.to_zarr       *)
(* derives the OME-NGFF metadata from the pyramid, stores it in the root   *)
(* attributes and delegates the write to DataTree.to_zarr.                 *)
(*                                                                         *)
(* Numbers held in arrays and coordinates are rationals <<n, d>> in lowest *)
(* terms with d > 0.  Python's None is the string "None".  A dict with     *)
(* string keys is a TLA+ function with a domain of strings.                *)
(***************************************************************************)
EXTENDS Integers, Sequences, FiniteSets, TLC

\* ------------------------------------------------------------- bounds

\* Largest extent of a spatial axis of an input image.
MaxExtent == 4
\* Largest number of scale factors (transitions) of one call.
MaxLevels == 2

\* ---------------------------------------------------------- arithmetic

Abs(x) == IF x < 0 THEN -x ELSE x

RECURSIVE GCD(_, _)
GCD(a, b) == IF b = 0 THEN a ELSE GCD(b, a % b)

Rat(n, d) ==
    LET g == GCD(Abs(n), Abs(d))
        s == IF d < 0 THEN -1 ELSE 1
    IN  <<(s * n) \div g, (s * d) \div g>>

RAdd(p, q) == Rat(p[1] * q[2] + q[1] * p[2], p[2] * q[2])
RSub(p, q) == Rat(p[1] * q[2] - q[1] * p[2], p[2] * q[2])
RDivInt(p, k) == Rat(p[1], p[2] * k)

RECURSIVE RSumSeq(_)
RSumSeq(s) == IF s = <<>> THEN Rat(0, 1) ELSE RAdd(Head(s), RSumSeq(Tail(s)))

RECURSIVE RSumOver(_, _)
RSumOver(S, d) ==
    IF S = {} THEN Rat(0, 1)
    ELSE LET i == CHOOSE j \in S : TRUE
         IN  RAdd(d[i], RSumOver(S \ {i}, d))

\* float(v) of a float64 value: the same value as a Python float.
Float(v) == Rat(v[1], v[2])

Range(s) == {s[k] : k \in 1..Len(s)}

\* ---------------------------------------------------------- the arrays

_spatial_dims == {"x", "y", "z"}

\* The index tuples of an array of the given shape.
RECURSIVE Indices(_)
Indices(shape) ==
    IF shape = <<>> THEN {<<>>}
    ELSE {<<i>> \o r : i \in 1..Head(shape), r \in Indices(Tail(shape))}

Shape(arr) == [k \in 1..Len(arr.dims) |-> Len(arr.coords[arr.dims[k]])]

\* Row-major position of an index tuple: the values of an input image.
RECURSIVE Linear(_, _)
Linear(idx, shape) ==
    IF idx = <<>> THEN 0
    ELSE Linear(SubSeq(idx, 1, Len(idx) - 1), SubSeq(shape, 1, Len(shape) - 1))
             * shape[Len(shape)] + (idx[Len(idx)] - 1)

\* An array is [name, dims, coords, units, data]: coords[a] is the sequence
\* of float64 coordinate values of axis a, units has the axes whose
\* coordinate carries a "units" attribute as its domain, data maps every
\* index tuple to a value.

\* xarray's Variable.coarsen_reshape with boundary="trim": the number of
\* samples dropped before the first window.  side="left" starts the windows
\* at the first sample, any other side ends them at the last one.
TrimOffset(size, window, side) ==
    IF side = "left" THEN 0 ELSE size - window * (size \div window)

\* One coordinate coarsened with coord_func="mean".
CoarsenCoord_First(c, window, side) ==
    LET off == TrimOffset(Len(c), window, side)
    IN  [j \in 1..(Len(c) \div window) |-> c[off + (j - 1) * window + 1]]

CoarsenCoord(c, window, side) ==
    LET off == TrimOffset(Len(c), window, side)
    IN  [j \in 1..(Len(c) \div window) |->
            RDivInt(RSumSeq(SubSeq(c, off + (j - 1) * window + 1, off + j * window)),
                    window)]

\* DataArray.coarsen raises ValueError for a window on a missing dimension.
CoarsenRaises(arr, dim) == \E a \in DOMAIN dim : a \notin Range(arr.dims)

\* arr.coarsen(dim=dim, boundary="trim", side=side).mean()
CoarsenMean(arr, dim, side) ==
    LET n     == Len(arr.dims)
        shape == Shape(arr)
        win   == [k \in 1..n |-> IF arr.dims[k] \in DOMAIN dim
                                 THEN dim[arr.dims[k]] ELSE 1]
        out   == [k \in 1..n |-> shape[k] \div win[k]]
        off   == [k \in 1..n |-> TrimOffset(shape[k], win[k], side)]
        cell(j, o) == [k \in 1..n |-> off[k] + (j[k] - 1) * win[k] + o[k]]
        block(j)   == {cell(j, o) : o \in Indices(win)}
        count      == Cardinality(Indices(win))
    IN  [name   |-> arr.name,
         dims   |-> arr.dims,
         coords |-> [a \in DOMAIN arr.coords |->
                        IF a \in DOMAIN dim
                        THEN CoarsenCoord(arr.coords[a], dim[a], side)
                        ELSE arr.coords[a]],
         units  |-> arr.units,
         data   |-> [j \in Indices(out) |->
                        RDivInt(RSumOver(block(j), arr.data), count)]]

\* arr.chunk(chunks).to_dataset(name=name): a dataset of one variable.
to_dataset(arr, chunks, name) ==
    [data_vars |-> <<name>>,
     dims      |-> arr.dims,
     coords    |-> arr.coords,
     units     |-> arr.units,
     data      |-> arr.data,
     chunks    |-> chunks]

\* ------------------------------------------------------- to_multiscale

\* isinstance(scale_factor, int): an integer factor f is [int |-> f], a
\* per-axis mapping is a function from axis names to factors.
IsInt(scale_factor) == DOMAIN scale_factor = {"int"}

\* The chunking of every level: the argument, or the default derived from
\* the dimensions of the input image.  The argument is <<>> for None and
\* <<n>> for the integer n.
ResolveChunks(image, chunks) ==
    IF chunks = <<>>
    THEN LET c == IF "z" \in Range(image.dims) THEN 64 ELSE 256
         IN  [d \in Range(image.dims) |-> IF d = "t" THEN 1 ELSE c]
    ELSE [d \in Range(image.dims) |-> chunks[1]]

\* The windows of one transition.
FactorDim(image, scale_factor) ==
    IF IsInt(scale_factor)
    THEN [d \in _spatial_dims \cap Range(image.dims) |-> scale_factor.int]
    ELSE scale_factor

\* data_objects[key] = value on a dict kept as a sequence of [path, ds] in
\* insertion order: an existing key keeps its place and takes the value.
DictSet(data_objects, key, value) ==
    IF \E k \in 1..Len(data_objects) : data_objects[k].path = key
    THEN [k \in 1..Len(data_objects) |->
             IF data_objects[k].path = key
             THEN [path |-> key, ds |-> value] ELSE data_objects[k]]
    ELSE Append(data_objects, [path |-> key, ds |-> value])

\* f"multiscales/{factor_index+1}", a path as the sequence of its components.
LevelKey_NoIncrement(factor_index) == <<"multiscales", ToString(factor_index)>>

LevelKey(factor_index) == <<"multiscales", ToString(factor_index + 1)>>

\* The loop over scale_factors.  current_input is bound to the image before
\* the loop and no iteration rebinds it.  Ends with raised = TRUE when
\* coarsen raises.
RECURSIVE Loop(_, _, _, _, _, _)
Loop(image, scale_factors, chunks, current_input, factor_index, data_objects) ==
    IF factor_index >= Len(scale_factors)
    THEN [raised |-> FALSE, data_objects |-> data_objects]
    ELSE LET scale_factor == scale_factors[factor_index + 1]
             dim          == FactorDim(image, scale_factor)
         IN  IF CoarsenRaises(current_input, dim)
             THEN [raised |-> TRUE, data_objects |-> data_objects]
             ELSE LET downscaled == CoarsenMean(current_input, dim, "right")
                  IN  Loop(image, scale_factors, chunks, current_input,
                           factor_index + 1,
                           DictSet(data_objects, LevelKey(factor_index),
                                   to_dataset(downscaled, chunks, image.name)))

\* DataTree.from_dict: a root named name with empty attributes and one
\* child per path "name/<child>", in insertion order.
NoAttrs == [k \in {} |-> <<>>]

from_dict(name, data_objects) ==
    [name     |-> name,
     attrs    |-> NoAttrs,
     children |-> [k \in 1..Len(data_objects) |->
                      [name |-> data_objects[k].path[2],
                       ds   |-> data_objects[k].ds]]]

\* Level 0: image.chunk(chunks).to_dataset(name=image.name)
BaseLevel_Downscaled(image, chunks) ==
    to_dataset(CoarsenMean(image, [d \in Range(image.dims) |-> 2], "right"),
               chunks, image.name)

BaseLevel(image, chunks) == to_dataset(image, chunks, image.name)

\* to_multiscale(image, scale_factors, method, chunks): the container, or
\* raised = TRUE.  The method argument is not read.
to_multiscale(image, scale_factors, method, chunks) ==
    LET resolved == ResolveChunks(image, chunks)
        level0   == DictSet(<<>>, <<"multiscales", "0">>, BaseLevel(image, resolved))
        built    == Loop(image, scale_factors, resolved, image, 0, level0)
    IN  [raised     |-> built.raised,
         multiscale |-> from_dict("multiscales", built.data_objects)]

\* ------------------------------------------------------------- to_zarr

\* The scale and translation of one level, one value per dimension.
ScaleTransform_Reversed(image) ==
    [k \in 1..Len(image.dims) |->
        LET c == image.coords[image.dims[k]]
        IN  IF Len(c) > 1 THEN Float(RSub(c[1], c[2])) ELSE Rat(1, 1)]

ScaleTransform(image) ==
    [k \in 1..Len(image.dims) |->
        LET c == image.coords[image.dims[k]]
        IN  IF Len(c) > 1 THEN Float(RSub(c[2], c[1])) ELSE Rat(1, 1)]

TranslateTransform(image) ==
    [k \in 1..Len(image.dims) |->
        LET c == image.coords[image.dims[k]]
        IN  IF Len(c) > 0 THEN Float(c[1]) ELSE Rat(0, 1)]

NgffDataset_PathSwapped(child, name) ==
    [path |-> name \o "/" \o child.name,
     coordinateTransformations |->
        << [type |-> "scale", scale |-> ScaleTransform(child.ds)],
           [type |-> "translation", translation |-> TranslateTransform(child.ds)] >>]

NgffDataset(child, name) ==
    [path |-> child.name \o "/" \o name,
     coordinateTransformations |->
        << [type |-> "scale", scale |-> ScaleTransform(child.ds)],
           [type |-> "translation", translation |-> TranslateTransform(child.ds)] >>]

NgffDatasets(self, name) ==
    [k \in 1..Len(self.children) |-> NgffDataset(self.children[k], name)]

AxisType(axis) ==
    IF axis = "t" THEN "time" ELSE IF axis = "c" THEN "channel" ELSE "space"

NgffAxes(image) ==
    [k \in 1..Len(image.dims) |->
        LET axis == image.dims[k]
        IN  IF axis \in DOMAIN image.units
            THEN [name |-> axis, type |-> AxisType(axis), unit |-> image.units[axis]]
            ELSE [name |-> axis, type |-> AxisType(axis)]]

\* The NGFF v0.4 document: one record per variable of the first child.
NgffMetadata(self) ==
    LET names == self.children[1].ds.data_vars
    IN  [multiscales |->
            [v \in 1..Len(names) |->
                [version  |-> "0.4",
                 name     |-> names[v],
                 axes     |-> NgffAxes(self.children[1].ds),
                 datasets |-> NgffDatasets(self, names[v])]]]

\* self.ds.attrs = ngff_metadata
AttachMetadata_Update(self, ngff_metadata) ==
    [self EXCEPT !.attrs =
        [k \in DOMAIN self.attrs \cup DOMAIN ngff_metadata |->
            IF k \in DOMAIN ngff_metadata THEN ngff_metadata[k] ELSE self.attrs[k]]]

AttachMetadata(self, ngff_metadata) == [self EXCEPT !.attrs = ngff_metadata]

\* The keyword arguments of the call super().to_zarr(store, **kwargs).
SuperArguments(mode, encoding, kwargs) == kwargs

\* DataTree.to_zarr(store, mode="w", encoding=None, **kwargs): what the
\* store-writer receives, a parameter left out taking its default.
DataTreeToZarr(store, passed) ==
    [store    |-> store,
     mode     |-> IF "mode" \in DOMAIN passed THEN passed.mode ELSE "w",
     encoding |-> IF "encoding" \in DOMAIN passed THEN passed.encoding ELSE "None",
     kwargs   |-> [k \in DOMAIN passed \ {"mode", "encoding"} |-> passed[k]]]

\* -------------------------------------------------------------- inputs

DimOrders == {<<"y", "x">>, <<"t", "x">>, <<"c", "z">>}

\* Extents of the time and channel axes of an input image.
FrameExtents == {1, 2}

\* The coordinates of an input image: origin and spacing of every axis, and
\* the axes whose coordinate has a "units" attribute.
Grids ==
    {[origin |-> 0, step |-> 1, units |-> NoAttrs],
     [origin |-> 3, step |-> 2,
      units  |-> [a \in {"x", "y", "z", "t"} |->
                     IF a = "t" THEN "second" ELSE "millimeter"]]}

Names == {"cthead1"}

ShapesOf(dims) ==
    {s \in [1..Len(dims) -> 1..MaxExtent] :
        \A k \in 1..Len(dims) :
            dims[k] \notin _spatial_dims => s[k] \in FrameExtents}

MakeImage(name, dims, shape, grid) ==
    [name   |-> name,
     dims   |-> dims,
     coords |-> [a \in Range(dims) |->
                    LET k == CHOOSE i \in 1..Len(dims) : dims[i] = a
                    IN  [i \in 1..shape[k] |-> Rat(grid.origin + (i - 1) * grid.step, 1)]],
     units  |-> [a \in Range(dims) \cap DOMAIN grid.units |-> grid.units[a]],
     data   |-> [idx \in Indices(shape) |-> Rat(Linear(idx, shape), 1)]]

Images ==
    UNION {{MakeImage(name, dims, shape, grid) :
               name \in Names, grid \in Grids, shape \in ShapesOf(dims)} :
           dims \in DimOrders}

\* One scale factor: an integer, or a mapping from axis names to integers.
Factors ==
    {[int |-> 2], [x |-> 2], [t |-> 2], [x |-> 3, y |-> 2]}

FactorSequences == UNION {[1..n -> Factors] : n \in 0..MaxLevels}

\* The optional arguments of a call.  method: None, the member of Method,
\* or anything else.  chunks: None (<<>>) or an integer (<<n>>).
XARRAY_COARSEN == "xarray.DataArray.coarsen"

Options ==
    {[method |-> "None", chunks |-> <<>>],
     [method |-> XARRAY_COARSEN, chunks |-> <<32>>],
     [method |-> "nearest", chunks |-> <<>>]}

\* The arguments of a to_zarr call: the defaults, or a mode and an encoding
\* of the caller's.
ZarrArguments ==
    {[store |-> "image.zarr", mode |-> "w", encoding |-> "None",
      kwargs |-> [consolidated |-> "True"]],
     [store |-> "image.zarr", mode |-> "a", encoding |-> "int16",
      kwargs |-> [consolidated |-> "True"]]}

\* Attributes a caller may have put on the root before to_zarr.
PriorAttrs == {[multiscales |-> <<>>, history |-> "resampled"]}

\* ------------------------------------------------------- state machine

VARIABLES
    pc,             \* "start"; "returned", "raised": how to_multiscale ended;
                    \* "written": to_zarr has been called
    image,          \* the arguments of the to_multiscale call
    scale_factors,
    method,
    chunks,
    multiscale,     \* the container to_multiscale returned
    to_zarr_call,   \* the arguments of the last to_zarr call
    found_attrs,    \* the keys of the root attributes that call found
    store_writer    \* what DataTree.to_zarr received in that call

vars == <<pc, image, scale_factors, method, chunks, multiscale,
          to_zarr_call, found_attrs, store_writer>>

NoContainer == [name |-> "", attrs |-> NoAttrs, children |-> <<>>]

Init ==
    /\ pc = "start"
    /\ image = <<>>
    /\ scale_factors = <<>>
    /\ method = "None"
    /\ chunks = <<>>
    /\ multiscale = NoContainer
    /\ to_zarr_call = <<>>
    /\ found_attrs = {}
    /\ store_writer = <<>>

\* A call of to_multiscale, with arguments out of the input sets.
ToMultiscale ==
    /\ pc = "start"
    /\ \E an_image \in Images, factors \in FactorSequences, options \in Options :
          LET result == to_multiscale(an_image, factors, options.method, options.chunks)
          IN  /\ pc' = IF result.raised THEN "raised" ELSE "returned"
              /\ multiscale' = IF result.raised THEN NoContainer ELSE result.multiscale
              /\ image' = an_image
              /\ scale_factors' = factors
              /\ method' = options.method
              /\ chunks' = options.chunks
    /\ UNCHANGED <<to_zarr_call, found_attrs, store_writer>>

\* The caller assigns the attributes of the root dataset before writing.
AssignRootAttrs ==
    /\ pc = "returned"
    /\ \E attrs \in PriorAttrs : multiscale' = [multiscale EXCEPT !.attrs = attrs]
    /\ UNCHANGED <<pc, image, scale_factors, method, chunks, to_zarr_call,
                   found_attrs, store_writer>>

\* A call of multiscale.to_zarr(store, mode, encoding, **kwargs).
ToZarr ==
    /\ pc \in {"returned", "written"}
    /\ \E args \in ZarrArguments :
          /\ to_zarr_call' = args
          /\ store_writer' = DataTreeToZarr(args.store,
                                 SuperArguments(args.mode, args.encoding, args.kwargs))
    /\ pc' = "written"
    /\ multiscale' = AttachMetadata(multiscale, NgffMetadata(multiscale))
    /\ found_attrs' = DOMAIN multiscale.attrs
    /\ UNCHANGED <<image, scale_factors, method, chunks>>

Next == ToMultiscale \/ AssignRootAttrs \/ ToZarr

Spec == Init /\ [][Next]_vars

\* -------------------------------------------------------------- claims

\* to_multiscale returned a container (to_zarr may have been called on it).
Returned == pc \in {"returned", "written"}

\* The dataset of level k, and the extent of one of its axes.
Level(k) == multiscale.children[k + 1].ds
LevelExtent(k, a) == Len(Level(k).coords[a])
LevelCount == Len(multiscale.children)

\* C1: every transition i divides the extent that level i has on each axis
\* it downsamples: extent at level i+1 = floor(extent at level i / factor).
C1_CumulativeCoarsening ==
    Returned =>
        \A i \in 0..(Len(scale_factors) - 1) :
            LET dim == FactorDim(image, scale_factors[i + 1])
            IN  \A a \in DOMAIN dim :
                    LevelExtent(i + 1, a) = LevelExtent(i, a) \div dim[a]

\* C2: the store-writer receives the mode and the encoding the caller gave
\* to to_zarr.
C2_ArgumentsForwarded ==
    pc = "written" =>
        /\ store_writer.mode = to_zarr_call.mode
        /\ store_writer.encoding = to_zarr_call.encoding

\* C3: a call that asks for a method other than block-mean (None selects
\* the default) ends in an error and returns no pyramid.
C3_UnsupportedMethodRaises ==
    (pc # "start" /\ method \notin {"None", XARRAY_COARSEN}) => pc = "raised"

\* C4: a call with N scale factors returns N+1 children named "0".."N" in
\* level order, each a dataset whose one variable is named after the image.
C4_LevelCount ==
    Returned =>
        /\ LevelCount = Len(scale_factors) + 1
        /\ \A k \in 1..LevelCount :
              /\ multiscale.children[k].name = ToString(k - 1)
              /\ multiscale.children[k].ds.data_vars = <<image.name>>

C4_Witness ==
    /\ pc = "returned"
    /\ Len(scale_factors) = MaxLevels
    /\ LevelCount = MaxLevels + 1

\* C5: with no scale factors there is one level, and level 0 always has the
\* dimensions, the coordinates and the values of the input image.
C5_Level0Identity ==
    Returned =>
        /\ Len(scale_factors) = 0 => LevelCount = 1
        /\ Level(0).dims = image.dims
        /\ Level(0).coords = image.coords
        /\ Level(0).data = image.data

C5_Witness ==
    /\ pc = "returned"
    /\ Len(scale_factors) = 0
    /\ Cardinality(DOMAIN image.data) >= 4

\* C6: after to_zarr every record of the root attributes lists one dataset
\* per level, in level order, entry k with the path "<k>/<variable>" and a
\* scale and a translation with one value per axis of that level.
C6_MetadataShape ==
    pc = "written" =>
        \A v \in 1..Len(multiscale.attrs.multiscales) :
            LET record == multiscale.attrs.multiscales[v]
                name   == Level(0).data_vars[v]
            IN  /\ Len(record.datasets) = LevelCount
                /\ \A k \in 0..(LevelCount - 1) :
                      LET entry == record.datasets[k + 1]
                          ct    == entry.coordinateTransformations
                      IN  /\ entry.path = ToString(k) \o "/" \o name
                          /\ Len(ct) = 2
                          /\ ct[1].type = "scale"
                          /\ ct[2].type = "translation"
                          /\ Len(ct[1].scale) = Len(Level(k).dims)
                          /\ Len(ct[2].translation) = Len(Level(k).dims)

C6_Witness ==
    /\ pc = "written"
    /\ LevelCount = MaxLevels + 1
    /\ Len(multiscale.attrs.multiscales[1].datasets) = MaxLevels + 1

\* C7: after to_zarr the root attributes hold the key "multiscales" and no
\* other, with one record per variable that lists the current levels,
\* whatever the root held before the call.
C7_AttrsReplaced ==
    pc = "written" =>
        /\ DOMAIN multiscale.attrs = {"multiscales"}
        /\ Len(multiscale.attrs.multiscales) = Len(Level(0).data_vars)
        /\ \A v \in 1..Len(Level(0).data_vars) :
              /\ multiscale.attrs.multiscales[v].name = Level(0).data_vars[v]
              /\ Len(multiscale.attrs.multiscales[v].datasets) = LevelCount

C7_Witness ==
    /\ pc = "written"
    /\ "history" \in found_attrs
    /\ DOMAIN multiscale.attrs = {"multiscales"}

\* C8: an integer factor leaves the t and c axes at their level-0 extent; a
\* mapping leaves every axis it does not name at the extent of the level
\* before.
C8_AxisSelection ==
    Returned =>
        \A i \in 1..Len(scale_factors) :
            \A a \in Range(image.dims) :
                IF IsInt(scale_factors[i])
                THEN a \in {"t", "c"} => LevelExtent(i, a) = LevelExtent(0, a)
                ELSE a \notin DOMAIN scale_factors[i]
                        => LevelExtent(i, a) = LevelExtent(i - 1, a)

\* C9: for every level and dimension, scale is second minus first
\* coordinate (1.0 for a single coordinate) and translation is the first
\* coordinate (0.0 for none), both vectors in the level's dimension order.
C9_Transforms ==
    pc = "written" =>
        \A v \in 1..Len(multiscale.attrs.multiscales) :
            \A k \in 0..(LevelCount - 1) :
                LET ct == multiscale.attrs.multiscales[v].datasets[k + 1]
                              .coordinateTransformations
                IN  /\ Len(ct[1].scale) = Len(ct[2].translation)
                    /\ \A d \in 1..Len(Level(k).dims) :
                          LET c == Level(k).coords[Level(k).dims[d]]
                          IN  /\ Len(c) >= 2 => ct[1].scale[d] = RSub(c[2], c[1])
                              /\ Len(c) = 1 => ct[1].scale[d] = Rat(1, 1)
                              /\ Len(c) >= 1 => ct[2].translation[d] = c[1]
                              /\ Len(c) = 0 => ct[2].translation[d] = Rat(0, 1)

\* A written pyramid with a level that has an axis without samples, an axis
\* with one and an axis with several.
C9_Witness ==
    /\ pc = "written"
    /\ \E k \in 0..(LevelCount - 1) : \E a \in Range(image.dims) : LevelExtent(k, a) = 0
    /\ \E k \in 0..(LevelCount - 1) : \E a \in Range(image.dims) : LevelExtent(k, a) = 1
    /\ \E k \in 0..(LevelCount - 1) : \E a \in Range(image.dims) : LevelExtent(k, a) > 2

\* The case of C10: a written pyramid of a 2-D image on x and y with unit
\* spacing and an even number, at least 4, of samples per axis, built with
\* the one scale factor 2.
C10_Case ==
    /\ pc = "written"
    /\ Range(image.dims) = {"x", "y"}
    /\ Len(scale_factors) = 1
    /\ scale_factors[1] = [int |-> 2]
    /\ \A a \in {"x", "y"} :
          /\ Len(image.coords[a]) >= 4
          /\ Len(image.coords[a]) % 2 = 0
          /\ \A i \in 1..(Len(image.coords[a]) - 1) :
                RSub(image.coords[a][i + 1], image.coords[a][i]) = Rat(1, 1)

Level1Transforms == multiscale.attrs.multiscales[1].datasets[2].coordinateTransformations

\* C10 as stated: level 1 has scale [2.0, 2.0] and the translation is the
\* first coordinate of level 0 on each axis.
C10_TranslationIsFirstCoordinate ==
    C10_Case =>
        /\ Level1Transforms[1].scale = <<Rat(2, 1), Rat(2, 1)>>
        /\ \A d \in 1..2 :
              Level1Transforms[2].translation[d] = Level(0).coords[image.dims[d]][1]

\* C10 amended: level 1 has scale [2.0, 2.0] and the translation is the
\* first coordinate of level 0 plus 0.5 on each axis, the mean of the first
\* two coordinates of level 0.
C10_TranslationIsWindowCentre ==
    C10_Case =>
        /\ Level1Transforms[1].scale = <<Rat(2, 1), Rat(2, 1)>>
        /\ \A d \in 1..2 :
              LET c == Level(0).coords[image.dims[d]]
              IN  /\ Level1Transforms[2].translation[d] = RAdd(c[1], Rat(1, 2))
                  /\ Level1Transforms[2].translation[d] = RDivInt(RAdd(c[1], c[2]), 2)

C10_Witness ==
    /\ C10_Case
    /\ Level1Transforms[2].translation = <<Rat(1, 2), Rat(1, 2)>>

====
